---- MODULE Spec2Model ----
\* A model of the stew3d disassembler (src/main.rs, src/opcode.rs,
\* src/instr.rs): one process that calls disassemble() on byte buffers, the
\* decode loop and the label insertion loop taken one iteration at a time.
EXTENDS Integers, Sequences, FiniteSets, TLC

\* ------------------------------------------------------------------ bounds
\* longest input buffer
MaxLen == 4
\* disassemble() is entered only while GENSYM_COUNTER is below this
MaxCounter == 10

\* The bytes input buffers are made of: small one-byte opcodes that double as
\* jump targets (0x00..0x02), ADDI_A (0x0c, two bytes), STSI (0x9e, three
\* bytes), JMP (0xb1), CALL (0xbc), NOP (0xc8, the last opcode) and 0xc9 (the
\* first invalid byte).
ByteSet == {0, 1, 2, 12, 158, 177, 188, 200, 201}

RECURSIVE SeqsUpTo(_)
SeqsUpTo(n) ==
    IF n = 0 THEN {<<>>}
    ELSE LET shorter == SeqsUpTo(n - 1)
         IN shorter \cup {Append(s, b) : s \in {t \in shorter : Len(t) = n - 1}, b \in ByteSet}

Buffers == SeqsUpTo(MaxLen)

\* ------------------------------------------------------------ opcode.rs
OPCODE_MIN == 0
OPCODE_MAX == 200

\* Opcode is repr(u8): an Opcode value is modelled by its discriminant.
JMP == 177
JE == 178
JNE == 179
JG == 180
JGE == 181
JL == 182
JLE == 183
JA == 184
JAE == 185
JB == 186
JBE == 187
CALL == 188

\* try_from with the upper limit off by one
try_from_off_by_one(byte) ==
    IF OPCODE_MIN <= byte /\ byte <= OPCODE_MAX + 1
    THEN [ok |-> TRUE, opcode |-> byte]
    ELSE [ok |-> FALSE, failure |-> byte]

\* TryFrom<u8> for Opcode: Ok(transmute(byte)) inside the range,
\* Err(ConversionFailure(byte)) outside.
try_from(byte) ==
    IF OPCODE_MIN <= byte /\ byte <= OPCODE_MAX
    THEN [ok |-> TRUE, opcode |-> byte]
    ELSE [ok |-> FALSE, failure |-> byte]

OneByteOpcodes ==
    (0..11) \cup (16..27) \cup (32..40) \cup (45..53) \cup (58..63) \cup (67..72)
    \cup (76..81) \cup (85..126) \cup (130..150) \cup (159..170) \cup (189..192)
    \cup (196..200)

\* TwoByteOpcodes with the jump range ending one opcode early, before call
TwoByteOpcodes_without_call ==
    (12..15) \cup (28..31) \cup (41..44) \cup (54..57) \cup (64..66) \cup (73..75)
    \cup (82..84) \cup (127..129) \cup (151..157) \cup (171..187) \cup (193..195)

TwoByteOpcodes ==
    (12..15) \cup (28..31) \cup (41..44) \cup (54..57) \cup (64..66) \cup (73..75)
    \cup (82..84) \cup (127..129) \cup (151..157) \cup (171..188) \cup (193..195)

ThreeByteOpcodes == {158}

\* instruction_size with stsi listed among the two-byte opcodes
instruction_size_stsi_two(opcode) ==
    IF opcode \in OneByteOpcodes THEN 1
    ELSE IF opcode \in TwoByteOpcodes \cup {158} THEN 2
    ELSE 0

\* Opcode::instruction_size; 0 stands for the panic arm.
instruction_size(opcode) ==
    IF opcode \in OneByteOpcodes THEN 1
    ELSE IF opcode \in TwoByteOpcodes THEN 2
    ELSE IF opcode \in ThreeByteOpcodes THEN 3
    ELSE 0

\* ------------------------------------------------------------- instr.rs
Zero == <<>>
One(first) == <<first>>
\* Two with the operands in the wrong order
Two_swapped(first, second) == <<second, first>>
Two(first, second) == <<first, second>>

Label(a, name) == [kind |-> "Label", addr |-> a, label |-> name]
Jump(a, op, target, name) ==
    [kind |-> "Jump", addr |-> a, opcode |-> op, target |-> target, label |-> name]
Instr(a, op, operands) ==
    [kind |-> "Instr", addr |-> a, opcode |-> op, operands |-> operands]

\* Instruction::to_bytes
to_bytes(ins) ==
    IF ins.kind = "Label" THEN <<>>
    ELSE IF ins.kind = "Jump" THEN <<ins.opcode, ins.target>>
    ELSE <<ins.opcode>> \o ins.operands

\* Instruction::size
size(ins) == Len(to_bytes(ins))

\* Instruction::num_operands
num_operands(ins) ==
    IF ins.kind = "Label" THEN 0
    ELSE IF ins.kind = "Jump" THEN 1
    ELSE Len(ins.operands)

\* num_opcodes that counts a Label like any other record
num_opcodes_counts_labels(ins) == 1

\* Instruction::num_opcodes
num_opcodes(ins) == IF ins.kind = "Label" THEN 0 ELSE 1

\* ------------------------------------------------------------- stats.rs
\* Iterator::sum over a sequence of numbers
RECURSIVE Sum(_)
Sum(s) == IF s = <<>> THEN 0 ELSE Head(s) + Sum(Tail(s))

\* the closure sum_up, instrs.iter().map(f).sum(): `mapped` holds the values
\* f gives for the records, in order
sum_up(mapped) == Sum(mapped)

\* the closure count_instrs, instrs.iter().filter(pred).count(): `kept` holds
\* what pred gives for the records, in order
count_instrs(kept) == Cardinality({i \in 1..Len(kept) : kept[i]})

\* the predicates handed to count_instrs
NotLabel(ins) == ins.kind # "Label"
SizeIsOne(ins) == size(ins) = 1
SizeIsTwo(ins) == size(ins) = 2
SizeIsThree(ins) == size(ins) = 3

\* BinaryStats::new
BinaryStats_new(s) ==
    [total_instrs |-> count_instrs([i \in 1..Len(s) |-> NotLabel(s[i])]),
     total_bytes |-> sum_up([i \in 1..Len(s) |-> size(s[i])]),
     opcode_bytes |-> sum_up([i \in 1..Len(s) |-> num_opcodes(s[i])]),
     operand_bytes |-> sum_up([i \in 1..Len(s) |-> num_operands(s[i])]),
     single_byte_instrs |-> count_instrs([i \in 1..Len(s) |-> SizeIsOne(s[i])]),
     two_byte_instrs |-> count_instrs([i \in 1..Len(s) |-> SizeIsTwo(s[i])]),
     three_byte_instrs |-> count_instrs([i \in 1..Len(s) |-> SizeIsThree(s[i])])]

\* -------------------------------------------------------------- main.rs
VARIABLES
    GENSYM_COUNTER,  \* static mut GENSYM_COUNTER
    pc,              \* "idle", "decode", "insert", "done"
    bytes,           \* the buffer disassemble was called with
    pos,             \* number of bytes the iterator has yielded
    instrs,          \* Vec of decoded instructions
    label_addr_map,  \* BiMap<usize, String>, a set of <<address, name>> pairs
    addr,            \* address counter of the decode loop
    with_labels,     \* Vec built by the insertion loop
    idx,             \* position of the insertion loop in instrs
    addr2,           \* address counter of the insertion loop
    result           \* value returned by disassemble

vars == <<GENSYM_COUNTER, pc, bytes, pos, instrs, label_addr_map, addr,
          with_labels, idx, addr2, result>>

None == [kind |-> "None"]
Ok(v) == [kind |-> "Ok", value |-> v]
Err(e) == [kind |-> "Err", err |-> e]
Panic == [kind |-> "Panic"]

\* enum Error
InvalidOpcode(byte) == [kind |-> "InvalidOpcode", byte |-> byte]
UnexpectedEndOfFile(opcode) == [kind |-> "UnexpectedEndOfFile", opcode |-> opcode]

\* format!("{}", n) for a usize: the decimal digits, most significant first
RECURSIVE Decimal(_)
Decimal(n) == IF n < 10 THEN <<n>> ELSE Decimal(n \div 10) \o <<n % 10>>

\* gensym: the name built from the counter's current value
gensym(base) == <<base>> \o Decimal(GENSYM_COUNTER)

\* BiMap::get_by_left: the set of names paired with the address (empty = None)
get_by_left(map, left) == {p[2] : p \in {q \in map : q[1] = left}}

\* BiMap::insert: pairs sharing the left or the right value are overwritten
insert(map, left, right) ==
    {p \in map : p[1] # left /\ p[2] # right} \cup {<<left, right>>}

\* IsJumpOpcode with CALL left out of the pattern
IsJumpOpcode_without_call(opcode) ==
    opcode \in {JMP, JE, JNE, JL, JLE, JG, JGE, JA, JAE, JB, JBE}

IsJumpOpcode(opcode) ==
    opcode \in {JMP, JE, JNE, JL, JLE, JG, JGE, JA, JAE, JB, JBE, CALL}

Init ==
    /\ GENSYM_COUNTER = 0
    /\ pc = "idle"
    /\ bytes = <<>>
    /\ pos = 0
    /\ instrs = <<>>
    /\ label_addr_map = {}
    /\ addr = 0
    /\ with_labels = <<>>
    /\ idx = 1
    /\ addr2 = 0
    /\ result = None

\* disassemble(&b) is entered: the locals before the first loop
Call ==
    /\ pc = "idle"
    /\ GENSYM_COUNTER < MaxCounter
    /\ \E b \in Buffers : bytes' = b
    /\ pos' = 0
    /\ instrs' = <<>>
    /\ label_addr_map' = {}
    /\ addr' = 0
    /\ pc' = "decode"
    /\ UNCHANGED <<GENSYM_COUNTER, with_labels, idx, addr2, result>>

\* Abort that returns what was decoded so far as a success
Abort_silent(res, consumed) ==
    /\ result' = Ok(instrs)
    /\ pos' = pos + consumed
    /\ pc' = "done"
    /\ UNCHANGED <<GENSYM_COUNTER, bytes, instrs, label_addr_map, addr,
                   with_labels, idx, addr2>>

\* an early return through `?`, or a panic, after `consumed` bytes were read
Abort(res, consumed) ==
    /\ result' = res
    /\ pos' = pos + consumed
    /\ pc' = "done"
    /\ UNCHANGED <<GENSYM_COUNTER, bytes, instrs, label_addr_map, addr,
                   with_labels, idx, addr2>>

\* Push with the address counter advanced by one instead of by the size
Push_addr_by_one(ins, sz) ==
    /\ instrs' = Append(instrs, ins)
    /\ addr' = addr + 1
    /\ pos' = pos + sz
    /\ UNCHANGED <<pc, bytes, with_labels, idx, addr2, result>>

\* instrs.push(ins); addr += size
Push(ins, sz) ==
    /\ instrs' = Append(instrs, ins)
    /\ addr' = addr + sz
    /\ pos' = pos + sz
    /\ UNCHANGED <<pc, bytes, with_labels, idx, addr2, result>>

\* DecodeJump with the label named after the target address
DecodeJump_named_by_address(opcode, operand) ==
    LET found == get_by_left(label_addr_map, operand)
    IN IF found # {}
       THEN /\ Push(Jump(addr, opcode, operand, CHOOSE l \in found : TRUE), 2)
            /\ UNCHANGED <<GENSYM_COUNTER, label_addr_map>>
       ELSE LET new_label == <<"l">> \o Decimal(operand)
            IN /\ GENSYM_COUNTER' = GENSYM_COUNTER + 1
               /\ label_addr_map' = insert(label_addr_map, operand, new_label)
               /\ Push(Jump(addr, opcode, operand, new_label), 2)

\* DecodeJump without the lookup: every jump generates a label
DecodeJump_always_new(opcode, operand) ==
    LET new_label == gensym("l")
    IN /\ GENSYM_COUNTER' = GENSYM_COUNTER + 1
       /\ label_addr_map' = insert(label_addr_map, operand, new_label)
       /\ Push(Jump(addr, opcode, operand, new_label), 2)

\* the jump arm of the match: reuse the label of the target or generate one
DecodeJump(opcode, operand) ==
    LET found == get_by_left(label_addr_map, operand)
    IN IF found # {}
       THEN /\ Push(Jump(addr, opcode, operand, CHOOSE l \in found : TRUE), 2)
            /\ UNCHANGED <<GENSYM_COUNTER, label_addr_map>>
       ELSE LET new_label == gensym("l")
            IN /\ GENSYM_COUNTER' = GENSYM_COUNTER + 1
               /\ label_addr_map' = insert(label_addr_map, operand, new_label)
               /\ Push(Jump(addr, opcode, operand, new_label), 2)

\* one iteration of `while let Some(&opcode) = bytes.next()`
DecodeStep ==
    /\ pc = "decode"
    /\ pos < Len(bytes)
    /\ LET conv == try_from(bytes[pos + 1])
           left == Len(bytes) - (pos + 1)
       IN IF ~conv.ok
          THEN Abort(Err(InvalidOpcode(conv.failure)), 1)
          ELSE LET opcode == conv.opcode
                   sz == instruction_size(opcode)
               IN CASE sz = 1 ->
                         /\ Push(Instr(addr, opcode, Zero), 1)
                         /\ UNCHANGED <<GENSYM_COUNTER, label_addr_map>>
                    [] sz = 2 ->
                         IF left < 1
                         THEN Abort(Err(UnexpectedEndOfFile(opcode)), 1)
                         ELSE IF IsJumpOpcode(opcode)
                         THEN DecodeJump(opcode, bytes[pos + 2])
                         ELSE /\ Push(Instr(addr, opcode, One(bytes[pos + 2])), 2)
                              /\ UNCHANGED <<GENSYM_COUNTER, label_addr_map>>
                    [] sz = 3 ->
                         IF left < 2
                         THEN Abort(Err(UnexpectedEndOfFile(opcode)), 1 + left)
                         ELSE /\ Push(Instr(addr, opcode,
                                            Two(bytes[pos + 2], bytes[pos + 3])), 3)
                              /\ UNCHANGED <<GENSYM_COUNTER, label_addr_map>>
                    [] OTHER -> Abort(Panic, 1)

\* bytes.next() is None: the locals of the second loop are set up
DecodeEnd ==
    /\ pc = "decode"
    /\ pos = Len(bytes)
    /\ addr2' = 0
    /\ with_labels' = <<>>
    /\ idx' = 1
    /\ pc' = "insert"
    /\ UNCHANGED <<GENSYM_COUNTER, bytes, pos, instrs, label_addr_map, addr, result>>

\* `if let Some(label) = label_addr_map.get_by_left(&addr)`: the Label records
\* pushed at address a (none or one)
LabelAt(map, a) ==
    LET found == get_by_left(map, a)
    IN IF found # {} THEN <<Label(a, CHOOSE l \in found : TRUE)>> ELSE <<>>

\* PushLabelled with the label pushed after the instruction
PushLabelled_after(v, labels, ins) == (v \o <<ins>>) \o labels

\* PushLabelled with the instruction pushed only when there is no label
PushLabelled_or(v, labels, ins) == IF labels # <<>> THEN v \o labels ELSE v \o <<ins>>

\* the two pushes of one iteration: the label, if any, then the instruction
PushLabelled(v, labels, ins) == (v \o labels) \o <<ins>>

\* InsertStep with the address counter advanced by one instead of by the size
InsertStep_addr_by_one ==
    /\ pc = "insert"
    /\ idx <= Len(instrs)
    /\ LET ins == instrs[idx]
       IN IF ins.kind \notin {"Jump", "Instr"} \/ instruction_size(ins.opcode) = 0
          THEN /\ result' = Panic
               /\ pc' = "done"
               /\ UNCHANGED <<with_labels, idx, addr2>>
          ELSE /\ addr2' = addr2 + 1
               /\ with_labels' = PushLabelled(with_labels,
                                              LabelAt(label_addr_map, addr2), ins)
               /\ idx' = idx + 1
               /\ UNCHANGED <<pc, result>>
    /\ UNCHANGED <<GENSYM_COUNTER, bytes, pos, instrs, label_addr_map, addr>>

\* InsertStep with the address counter never advanced
InsertStep_addr_stuck ==
    /\ pc = "insert"
    /\ idx <= Len(instrs)
    /\ LET ins == instrs[idx]
       IN IF ins.kind \notin {"Jump", "Instr"} \/ instruction_size(ins.opcode) = 0
          THEN /\ result' = Panic
               /\ pc' = "done"
               /\ UNCHANGED <<with_labels, idx, addr2>>
          ELSE /\ addr2' = addr2
               /\ with_labels' = PushLabelled(with_labels,
                                              LabelAt(label_addr_map, addr2), ins)
               /\ idx' = idx + 1
               /\ UNCHANGED <<pc, result>>
    /\ UNCHANGED <<GENSYM_COUNTER, bytes, pos, instrs, label_addr_map, addr>>

\* one iteration of `for ins in &instrs`
InsertStep ==
    /\ pc = "insert"
    /\ idx <= Len(instrs)
    /\ LET ins == instrs[idx]
       IN IF ins.kind \notin {"Jump", "Instr"} \/ instruction_size(ins.opcode) = 0
          THEN /\ result' = Panic
               /\ pc' = "done"
               /\ UNCHANGED <<with_labels, idx, addr2>>
          ELSE /\ addr2' = addr2 + instruction_size(ins.opcode)
               /\ with_labels' = PushLabelled(with_labels,
                                              LabelAt(label_addr_map, addr2), ins)
               /\ idx' = idx + 1
               /\ UNCHANGED <<pc, result>>
    /\ UNCHANGED <<GENSYM_COUNTER, bytes, pos, instrs, label_addr_map, addr>>

\* the loop is over: Ok(with_labels)
InsertEnd ==
    /\ pc = "insert"
    /\ idx > Len(instrs)
    /\ result' = Ok(with_labels)
    /\ pc' = "done"
    /\ UNCHANGED <<GENSYM_COUNTER, bytes, pos, instrs, label_addr_map, addr,
                   with_labels, idx, addr2>>

\* the caller has the result; the locals of the call are dropped, the static
\* counter stays
Return ==
    /\ pc = "done"
    /\ pc' = "idle"
    /\ bytes' = <<>>
    /\ pos' = 0
    /\ instrs' = <<>>
    /\ label_addr_map' = {}
    /\ addr' = 0
    /\ with_labels' = <<>>
    /\ idx' = 1
    /\ addr2' = 0
    /\ result' = None
    /\ UNCHANGED GENSYM_COUNTER

Next == Call \/ DecodeStep \/ DecodeEnd \/ InsertStep \/ InsertEnd \/ Return

Spec == Init /\ [][Next]_vars

\* the call run() makes: disassemble is entered with the counter still at 0
CallFirst == GENSYM_COUNTER = 0 /\ Call

NextRun == CallFirst \/ DecodeStep \/ DecodeEnd \/ InsertStep \/ InsertEnd \/ Return

\* disassemble is sequential code: a call that has been entered keeps taking
\* its next step
FairSpec ==
    /\ Init
    /\ [][NextRun]_vars
    /\ WF_vars(DecodeStep)
    /\ WF_vars(DecodeEnd)
    /\ WF_vars(InsertStep)
    /\ WF_vars(InsertEnd)

\* ---------------------------------------------- every opcode, one at a time
\* a u8
Byte == 0..255

\* the bytes that follow the first byte of these buffers: two one-byte
\* opcodes that are also addresses, and an invalid byte
OperandSet == {0, 2, 255}

\* every byte value, alone and followed by one or two bytes
OpcodeBuffers ==
    {<<op>> : op \in Byte}
    \cup {<<op, a>> : op \in Byte, a \in OperandSet}
    \cup {<<op, a, b>> : op \in Byte, a \in OperandSet, b \in OperandSet}

\* disassemble(&b) is entered with one of these buffers
CallOpcode ==
    /\ pc = "idle"
    /\ GENSYM_COUNTER < MaxCounter
    /\ \E b \in OpcodeBuffers : bytes' = b
    /\ pos' = 0
    /\ instrs' = <<>>
    /\ label_addr_map' = {}
    /\ addr' = 0
    /\ pc' = "decode"
    /\ UNCHANGED <<GENSYM_COUNTER, with_labels, idx, addr2, result>>

NextOpcodes ==
    CallOpcode \/ DecodeStep \/ DecodeEnd \/ InsertStep \/ InsertEnd \/ Return

SpecOpcodes == Init /\ [][NextOpcodes]_vars

\* ------------------------------------------------- BinaryStats::new alone
\* longest instruction sequence handed to BinaryStats::new
MaxStatsLen == 6

\* the records the sequences are made of: those of the test small_program
\* (mvi 255, a; l0:; out a; dcr a; cmp a, z; jne l0) and an stsi
StatsRecords ==
    {Instr(0, 127, One(255)), Label(2, <<"l", 0>>), Instr(2, 190, Zero),
     Instr(3, 103, Zero), Instr(4, 161, Zero), Jump(5, JNE, 2, <<"l", 0>>),
     Instr(0, 158, Two(1, 2))}

RECURSIVE RecordSeqsUpTo(_)
RecordSeqsUpTo(n) ==
    IF n = 0 THEN {<<>>}
    ELSE LET shorter == RecordSeqsUpTo(n - 1)
         IN shorter \cup {Append(s, r) : s \in {t \in shorter : Len(t) = n - 1},
                                         r \in StatsRecords}

\* the slice is in with_labels, nothing has been computed
InitStats ==
    /\ GENSYM_COUNTER = 0
    /\ pc = "stats"
    /\ bytes = <<>>
    /\ pos = 0
    /\ instrs = <<>>
    /\ label_addr_map = {}
    /\ addr = 0
    /\ with_labels \in RecordSeqsUpTo(MaxStatsLen)
    /\ idx = 1
    /\ addr2 = 0
    /\ result = None

\* BinaryStats::new(&with_labels) returns
NewStats ==
    /\ pc = "stats"
    /\ result' = BinaryStats_new(with_labels)
    /\ pc' = "done"
    /\ UNCHANGED <<GENSYM_COUNTER, bytes, pos, instrs, label_addr_map, addr,
                   with_labels, idx, addr2>>

SpecStats == InitStats /\ [][NewStats]_vars

\* ------------------------------------------------------------ properties
\* disassemble has returned Ok
Succeeded == pc = "done" /\ result.kind = "Ok"

\* the returned sequence (empty while there is none)
Returned == IF Succeeded THEN result.value ELSE <<>>

IsLabel(r) == r.kind = "Label"

\* indexes of the Label records, and of the Instr/Jump records, of a sequence
LabelIdx(s) == {i \in 1..Len(s) : IsLabel(s[i])}
CodeIdx(s) == {i \in 1..Len(s) : ~IsLabel(s[i])}

\* start addresses of the Instr/Jump records of a sequence
Starts(s) == {s[i].addr : i \in CodeIdx(s)}

\* sum of the encoding lengths of the first n records of a sequence
RECURSIVE EncodedLen(_, _)
EncodedLen(s, n) == IF n = 0 THEN 0 ELSE EncodedLen(s, n - 1) + size(s[n])

\* C1: in a successful result the address of every Instr/Jump record is the
\* sum of the encoding lengths of the records before it, and the input buffer
\* holds the record's opcode byte at that offset.
C1_AddressIsOffset ==
    Succeeded =>
        \A i \in CodeIdx(Returned) :
            /\ Returned[i].addr = EncodedLen(Returned, i - 1)
            /\ Returned[i].addr < Len(bytes)
            /\ bytes[Returned[i].addr + 1] = Returned[i].opcode

\* a result whose third instruction, at address 3, follows a two-byte and a
\* one-byte instruction
C1_Witness ==
    /\ Succeeded
    /\ \E i, j, k \in CodeIdx(Returned) :
          /\ i < j /\ j < k
          /\ size(Returned[i]) = 2 /\ size(Returned[j]) = 1
          /\ Returned[k].addr = 3

\* C2: a Jump of a successful result whose target is the start address of a
\* decoded instruction has exactly one Label at that address, carrying the
\* Jump's name.
C2_JumpHasItsLabel ==
    Succeeded =>
        \A i \in CodeIdx(Returned) :
            (Returned[i].kind = "Jump" /\ Returned[i].target \in Starts(Returned)) =>
                LET at == {l \in LabelIdx(Returned) : Returned[l].addr = Returned[i].target}
                IN /\ Cardinality(at) = 1
                   /\ \A l \in at : Returned[l].label = Returned[i].label

\* a result with a forward jump and a backward jump, both to decoded instructions
C2_Witness ==
    /\ Succeeded
    /\ \E i, j \in CodeIdx(Returned) :
          /\ Returned[i].kind = "Jump" /\ Returned[j].kind = "Jump"
          /\ Returned[i].target > Returned[i].addr
          /\ Returned[j].target < Returned[j].addr
          /\ {Returned[i].target, Returned[j].target} \subseteq Starts(Returned)

\* a result with a jump to its own address
C2_WitnessSelf ==
    /\ Succeeded
    /\ \E i \in CodeIdx(Returned) :
          Returned[i].kind = "Jump" /\ Returned[i].target = Returned[i].addr

\* the addresses met as jump targets during the decode pass
Targets == {p[1] : p \in label_addr_map}

\* number of Label records of the result at address a
LabelsAt(a) == Cardinality({l \in LabelIdx(Returned) : Returned[l].addr = a})

\* C3 as stated: every jump target met during decoding, wherever it lies,
\* has exactly one Label in the result.
C3_EveryTargetLabelled ==
    Succeeded => \A a \in Targets : LabelsAt(a) = 1

\* C3 amended: a jump target has exactly one Label, placed right before the
\* instruction at that address, when it is the start address of a decoded
\* instruction, and no Label at all otherwise.
C3_TargetLabelledAtBoundary ==
    Succeeded =>
        \A a \in Targets :
            IF a \in Starts(Returned)
            THEN /\ LabelsAt(a) = 1
                 /\ \A l \in LabelIdx(Returned) :
                       Returned[l].addr = a =>
                           /\ l < Len(Returned)
                           /\ ~IsLabel(Returned[l + 1])
                           /\ Returned[l + 1].addr = a
            ELSE LabelsAt(a) = 0

\* a result with a labelled target and a target inside an instruction
C3_Witness ==
    /\ Succeeded
    /\ \E a, b \in Targets :
          /\ a \in Starts(Returned)
          /\ b \notin Starts(Returned)
          /\ b < Len(bytes)

\* C4: every Label of a successful result is directly followed by the
\* Instr/Jump at the Label's address, every record before it has a lower
\* address, and no instruction spans the Label's address.
C4_LabelBeforeItsInstruction ==
    Succeeded =>
        \A l \in LabelIdx(Returned) :
            /\ l < Len(Returned)
            /\ ~IsLabel(Returned[l + 1])
            /\ Returned[l + 1].addr = Returned[l].addr
            /\ \A j \in 1..(l - 1) : Returned[j].addr < Returned[l].addr
            /\ \A j \in CodeIdx(Returned) :
                  ~(/\ Returned[j].addr < Returned[l].addr
                    /\ Returned[l].addr < Returned[j].addr + size(Returned[j]))

\* a result with a Label in the middle, after a multi-byte instruction
C4_Witness ==
    /\ Succeeded
    /\ \E l \in LabelIdx(Returned) :
          /\ l > 1
          /\ size(Returned[l - 1]) > 1

\* indexes of the Jump records decoded so far
JumpIdx == {i \in 1..Len(instrs) : instrs[i].kind = "Jump"}

\* index of the first decoded Jump with the same target as the Jump at i
FirstMet(i) ==
    CHOOSE k \in JumpIdx :
        /\ instrs[k].target = instrs[i].target
        /\ \A j \in JumpIdx : instrs[j].target = instrs[i].target => k <= j

\* the number written in decimal digits, most significant first
RECURSIVE DecimalValue(_)
DecimalValue(digits) ==
    IF digits = <<>> THEN 0
    ELSE 10 * DecimalValue(SubSeq(digits, 1, Len(digits) - 1)) + digits[Len(digits)]

\* the numeric suffix of a label name
Suffix(name) == DecimalValue(Tail(name))

\* C5: within one call, a target first met earlier in the byte stream has a
\* name with a lower numeric suffix, whatever the order of the addresses.
C5_NamesInFirstMetOrder ==
    \A i, j \in JumpIdx :
        FirstMet(i) < FirstMet(j) => Suffix(instrs[i].label) < Suffix(instrs[j].label)

\* a result where the higher address was met first and the names are l9, l10
C5_Witness ==
    /\ Succeeded
    /\ \E i, j \in JumpIdx :
          /\ i < j
          /\ instrs[i].target > instrs[j].target
          /\ Suffix(instrs[i].label) = 9
          /\ Suffix(instrs[j].label) = 10

\* C6: at every step the symbol table pairs addresses and names one to one,
\* holds exactly the targets met so far, and every decoded Jump still carries
\* the name the table has for its target; so two Jumps share a name exactly
\* when they share a target.
C6_SymbolTableBijection ==
    /\ \A p, q \in label_addr_map : (p[1] = q[1]) <=> (p[2] = q[2])
    /\ Targets = {instrs[i].target : i \in JumpIdx}
    /\ \A i \in JumpIdx : <<instrs[i].target, instrs[i].label>> \in label_addr_map
    /\ \A i, j \in JumpIdx :
          (instrs[i].label = instrs[j].label) <=> (instrs[i].target = instrs[j].target)
    /\ Succeeded =>
          \A i \in CodeIdx(Returned) :
              Returned[i].kind = "Jump" =>
                  <<Returned[i].target, Returned[i].label>> \in label_addr_map

\* a second jump to a target that already has a name, after a call that left
\* the counter above zero
C6_Witness ==
    /\ pc = "decode"
    /\ \E i, j \in JumpIdx :
          /\ i < j
          /\ instrs[i].target = instrs[j].target
          /\ Suffix(instrs[i].label) > 0

\* C7: whatever calls came before, a call names its first distinct jump target
\* l0, its second l1, and so on.
C7_NamesRestartPerCall ==
    \A i \in JumpIdx :
        instrs[i].label =
            <<"l">> \o Decimal(Cardinality({instrs[j].target :
                                              j \in {k \in JumpIdx : k < FirstMet(i)}}))

\* the bytes of a sequence of records, Labels contributing none
RECURSIVE Encode(_)
Encode(s) == IF s = <<>> THEN <<>> ELSE to_bytes(Head(s)) \o Encode(Tail(s))

\* C8: the encodings of the records of a successful result, in order, are the
\* input buffer.
C8_RoundTrip == Succeeded => Encode(Returned) = bytes

\* a buffer that is one three-byte instruction with two different operands
C8_Witness ==
    /\ Succeeded
    /\ Len(Returned) = 1
    /\ Returned[1].kind = "Instr"
    /\ Len(Returned[1].operands) = 2
    /\ Returned[1].operands[1] # Returned[1].operands[2]

\* a result with a Label, a Jump and an operand byte
C8_WitnessLabelled ==
    /\ Succeeded
    /\ LabelIdx(Returned) # {}
    /\ \E i \in CodeIdx(Returned) : Returned[i].kind = "Instr" /\ Returned[i].operands # <<>>

\* the decode loop is about to read the byte at an instruction boundary
AtBoundary == pc = "decode" /\ pos < Len(bytes)

\* C9 as stated: a byte above 0xC8 at an instruction boundary makes the call
\* fail with an InvalidOpcode value naming the byte and the offset it was read at.
C9_InvalidOpcodeNamesByteAndOffset ==
    [][(AtBoundary /\ bytes[pos + 1] > 200) =>
          /\ pc' = "done"
          /\ result'.kind = "Err"
          /\ result'.err.kind = "InvalidOpcode"
          /\ result'.err.byte = bytes[pos + 1]
          /\ "address" \in DOMAIN result'.err
          /\ result'.err.address = pos]_vars

\* C9 amended: a byte above 0xC8 at an instruction boundary makes the call
\* fail with an InvalidOpcode value that holds that byte and nothing else.
C9_InvalidOpcodeNamesByte ==
    [][(AtBoundary /\ bytes[pos + 1] > 200) =>
          /\ pc' = "done"
          /\ result' = [kind |-> "Err",
                        err |-> [kind |-> "InvalidOpcode", byte |-> bytes[pos + 1]]]]_vars

\* the call has failed on the byte 0xc9 read at offset 3
C9_Witness ==
    /\ pc = "done"
    /\ result = [kind |-> "Err", err |-> [kind |-> "InvalidOpcode", byte |-> 201]]
    /\ addr = 3
    /\ bytes[4] = 201

\* the buffer ends before the operands of the opcode op, `left` bytes after it
Truncated(op, left) ==
    \/ op = 158 /\ left < 2
    \/ instruction_size(op) = 2 /\ left < 1

\* C10: a valid opcode at an instruction boundary whose operands the buffer
\* does not hold makes the call fail with UnexpectedEndOfFile naming that
\* opcode, and the error is given only for the opcode of an instruction that
\* reaches past the end of the buffer.
C10_TruncationNamesOpcode ==
    [][/\ (AtBoundary /\ bytes[pos + 1] <= 200
             /\ Truncated(bytes[pos + 1], Len(bytes) - (pos + 1))) =>
             /\ pc' = "done"
             /\ result' = [kind |-> "Err",
                           err |-> [kind |-> "UnexpectedEndOfFile",
                                    opcode |-> bytes[pos + 1]]]
       /\ (result'.kind = "Err" /\ result'.err.kind = "UnexpectedEndOfFile") =>
             /\ addr' < Len(bytes')
             /\ bytes'[addr' + 1] = result'.err.opcode
             /\ addr' + instruction_size(result'.err.opcode) > Len(bytes')]_vars

\* the call has failed on stsi with one of its two operands present
C10_Witness ==
    /\ pc = "done"
    /\ result = [kind |-> "Err", err |-> [kind |-> "UnexpectedEndOfFile", opcode |-> 158]]
    /\ addr > 0
    /\ Len(bytes) - addr = 2

\* the call has returned an error
Failed == pc = "done" /\ result.kind = "Err"

\* C11: a failed call returns the error of the defect at the lowest
\* instruction boundary: the bytes before it are complete instructions with
\* valid opcodes, the error names the byte at that boundary, and the returned
\* value holds the error only, no instruction records.
C11_FailFast ==
    /\ pc = "done" => result.kind # "Ok" \/ pos = Len(bytes)
    /\ Failed =>
          /\ DOMAIN result = {"kind", "err"}
          /\ addr < Len(bytes)
          /\ Encode(instrs) = SubSeq(bytes, 1, addr)
          /\ \A i \in 1..Len(instrs) : instrs[i].opcode <= 200
          /\ \/ /\ result.err = [kind |-> "InvalidOpcode", byte |-> bytes[addr + 1]]
                /\ bytes[addr + 1] > 200
             \/ /\ result.err = [kind |-> "UnexpectedEndOfFile", opcode |-> bytes[addr + 1]]
                /\ bytes[addr + 1] <= 200
                /\ Truncated(bytes[addr + 1], Len(bytes) - (addr + 1))

\* a call that failed on an invalid byte after decoding an instruction, in
\* a buffer that holds a second invalid byte and ends in a truncated stsi
C11_Witness ==
    /\ Failed
    /\ instrs # <<>>
    /\ result.err.kind = "InvalidOpcode"
    /\ Len(bytes) = addr + 3
    /\ bytes[addr + 2] > 200
    /\ bytes[addr + 3] = 158

\* the number of instructions the buffer splits into from offset p on, added
\* to n; -1 when it does not split into complete valid instructions
RECURSIVE SplitCount(_, _, _)
SplitCount(b, p, n) ==
    IF p = Len(b) THEN n
    ELSE IF b[p + 1] > 200 THEN -1
    ELSE LET sz == instruction_size(b[p + 1])
         IN IF sz = 0 \/ p + sz > Len(b) THEN -1 ELSE SplitCount(b, p + sz, n + 1)

\* C12: the call returns Ok exactly when the buffer splits into complete
\* instructions with valid opcodes; the result then holds one Instr/Jump per
\* instruction of the split, and the empty buffer gives the empty sequence.
C12_OkIffSplits ==
    pc = "done" =>
        /\ result.kind = "Ok" <=> SplitCount(bytes, 0, 0) >= 0
        /\ result.kind = "Ok" =>
              Cardinality(CodeIdx(result.value)) = SplitCount(bytes, 0, 0)
        /\ bytes = <<>> => result = [kind |-> "Ok", value |-> <<>>]

\* a successful call on a buffer of three instructions, one of them labelled
C12_Witness ==
    /\ Succeeded
    /\ SplitCount(bytes, 0, 0) = 3
    /\ LabelIdx(Returned) # {}

\* the empty buffer has been disassembled
C12_WitnessEmpty == Succeeded /\ bytes = <<>> /\ Returned = <<>>

\* C13: try_from accepts exactly the 201 bytes 0x00..=0xC8; the three lists
\* of instruction_size are pairwise disjoint and cover those bytes, so every
\* accepted byte has one encoding length in 1..3 and no call panics.
C13_OpcodeTableTotal ==
    /\ Cardinality({b \in Byte : try_from(b).ok}) = 201
    /\ OneByteOpcodes \cap TwoByteOpcodes = {}
    /\ OneByteOpcodes \cap ThreeByteOpcodes = {}
    /\ TwoByteOpcodes \cap ThreeByteOpcodes = {}
    /\ OneByteOpcodes \cup TwoByteOpcodes \cup ThreeByteOpcodes = 0..200
    /\ result.kind # "Panic"
    /\ (pc # "idle" /\ bytes # <<>>) =>
          LET b == bytes[1]
          IN /\ try_from(b).ok <=> b \in 0..200
             /\ try_from(b).ok =>
                   /\ try_from(b).opcode = b
                   /\ instruction_size(b) \in {1, 2, 3}
             /\ pos > 0 =>
                   ((Failed /\ addr = 0 /\ result.err.kind = "InvalidOpcode") <=> b \in 201..255)

\* the last valid opcode, 0xc8, has been decoded
C13_Witness ==
    /\ Succeeded
    /\ bytes = <<200>>
    /\ Len(Returned) = 1

\* the first invalid byte, 0xc9, has been rejected
C13_WitnessRejected ==
    /\ Failed
    /\ bytes[1] = 201
    /\ result.err = [kind |-> "InvalidOpcode", byte |-> 201]

\* C14: a record of a successful result is a Jump exactly for the opcodes
\* 0xB1..=0xBC, which take two bytes; any other opcode gives an Instr with
\* one operand less than its encoding length, and only 0x9E takes three bytes.
C14_JumpClass ==
    Succeeded =>
        \A i \in CodeIdx(Returned) :
            LET r == Returned[i]
            IN /\ r.kind = "Jump" <=> r.opcode \in 177..188
               /\ r.kind = "Jump" => instruction_size(r.opcode) = 2 /\ size(r) = 2
               /\ r.kind = "Instr" => Len(r.operands) = instruction_size(r.opcode) - 1
               /\ instruction_size(r.opcode) = 3 <=> r.opcode = 158

\* a call (0xbc), the last opcode of the jump class, has been decoded
C14_Witness ==
    /\ Succeeded
    /\ \E i \in CodeIdx(Returned) : Returned[i].kind = "Jump" /\ Returned[i].opcode = 188

\* ret (0xbd), jmp's lower neighbour (0xb0) and stsi have been decoded as Instr
C14_WitnessInstr ==
    /\ Succeeded
    /\ Returned[1].kind = "Instr"
    /\ Returned[1].opcode \in {176, 189, 158}

\* C15: the statistics of a sequence are those of the sequence without its
\* Labels; total_bytes is opcode_bytes plus operand_bytes and total_instrs is
\* the sum of the three per-size counts.
C15_StatsIgnoreLabels ==
    (pc = "done" /\ "total_instrs" \in DOMAIN result) =>
        /\ result = BinaryStats_new(SelectSeq(with_labels, NotLabel))
        /\ result.total_instrs = Len(SelectSeq(with_labels, NotLabel))
        /\ result.total_bytes = result.opcode_bytes + result.operand_bytes
        /\ result.total_instrs =
              result.single_byte_instrs + result.two_byte_instrs + result.three_byte_instrs

\* the statistics of the test small_program
C15_Witness ==
    /\ pc = "done"
    /\ with_labels = <<Instr(0, 127, One(255)), Label(2, <<"l", 0>>), Instr(2, 190, Zero),
                       Instr(3, 103, Zero), Instr(4, 161, Zero), Jump(5, 179, 2, <<"l", 0>>)>>
    /\ result = [total_instrs |-> 5, total_bytes |-> 7, opcode_bytes |-> 5,
                 operand_bytes |-> 2, single_byte_instrs |-> 3, two_byte_instrs |-> 2,
                 three_byte_instrs |-> 0]

\* C16: every call ends, with Ok or with one of the two errors and never
\* with a panic; each iteration of the decode loop reads at least one byte
\* and each iteration of the insertion loop moves to the next record.
C16_Terminates ==
    /\ (pc \in {"decode", "insert"}) ~> (pc = "done")
    /\ [](result.kind # "Panic")
    /\ [](pc = "done" =>
            \/ result.kind = "Ok" /\ idx = Len(instrs) + 1
            \/ /\ result.kind = "Err"
               /\ result.err.kind \in {"InvalidOpcode", "UnexpectedEndOfFile"})
    /\ [][/\ (pc = "decode" /\ pc' \in {"decode", "done"}) =>
                pos' > pos /\ pos' <= Len(bytes)
          /\ (pc = "insert" /\ pc' = "insert") =>
                idx <= Len(instrs) /\ idx' = idx + 1]_vars

\* a call that ended with Ok after the most iterations of both loops
C16_Witness ==
    /\ Succeeded
    /\ Len(instrs) = Len(bytes)
    /\ Len(bytes) >= 4

\* a call that ended with an error after some iterations
C16_WitnessFailed == Failed /\ Len(instrs) >= 2

\* C17: every Label of a successful result has the address and the name of
\* some Jump's target in the same result, no two Labels share an address or
\* a name, and the result without its Labels is the decoded sequence.
C17_NoSpuriousLabels ==
    Succeeded =>
        /\ \A l \in LabelIdx(Returned) :
              \E i \in CodeIdx(Returned) :
                  /\ Returned[i].kind = "Jump"
                  /\ Returned[i].target = Returned[l].addr
                  /\ Returned[i].label = Returned[l].label
        /\ \A l, m \in LabelIdx(Returned) :
              l # m => /\ Returned[l].addr # Returned[m].addr
                       /\ Returned[l].label # Returned[m].label
        /\ SelectSeq(Returned, NotLabel) = instrs

\* a result with two Labels, for the targets of its two Jumps
C17_Witness ==
    /\ Succeeded
    /\ Cardinality(LabelIdx(Returned)) = 2
    /\ Cardinality(JumpIdx) = 2

\* a result with a jump whose target is no instruction start: no Label for it
C17_WitnessUnlabelled ==
    /\ Succeeded
    /\ LabelIdx(Returned) = {}
    /\ JumpIdx # {}

====
